---- MODULE Spec2Model ----
(***************************************************************************)
(* kidex: the live directory-tree index, the kernel notifier it listens   *)
(* to, the event loop that owns the index and the IPC task that reads it. *)
(*                                                                         *)
(* A path (PathBuf) is a sequence of components.  The configured root is  *)
(* the single component RootPath; every path below it is RootPath         *)
(* followed by names.  A sequence that does not start with RootPath is a  *)
(* relative path, which the daemon's working directory does not resolve.  *)
(***************************************************************************)
EXTENDS Integers, Sequences, FiniteSets, TLC

\* ------------------------------------------------------------------ bounds
\* Deepest directory level below the root that the file system may hold.
MaxDepth == 2
\* Watches the kernel lets the user hold at once (max_user_watches);
\* add_watch fails with ENOSPC beyond it.
MaxWatches == 4
\* Stimuli from outside in one run: file-system operations of other
\* processes and client connections.
MaxOps == 3

\* mpsc::channel::<EventLoopMsg>(32)
ChannelCap == 32

Names == {"a", "b"}
\* read_dir's enumeration order (the file system's choice, fixed here)
NameOrder == <<"a", "b">>
RootPath == "/r"
\* Option::None of a WatchDescriptor (descriptor, parent)
NoDesc == 0
\* Event.name = None
NoName == ""

Paths == UNION {[1..n -> Names] : n \in 1..MaxDepth}

VARIABLES
    fs,        \* file system below the root: Paths -> "none" | "file" | "dir"
    watches,   \* kernel: watch descriptor -> path of the watched directory
    nextWd,    \* kernel: next fresh watch descriptor
    kqueue,    \* kernel: events queued for read_events
    inner,     \* Index.inner: watch descriptor -> DirectoryIndex
    config,    \* Config of the event loop (one WatchDir plus global ignores)
    batch,     \* events of the current read_events call not yet dispatched
    pc,        \* position of the main task
    lock,      \* owner of the index Mutex: "free" | "main" | "ipc"
    ctl,       \* mpsc channel of EventLoopMsg, IPC task to event loop
    ipc,       \* position of the IPC task
    reply,     \* last IpcResponse written by the IPC task
    ops,       \* file-system operations and connections so far
    cmd,       \* IpcCommand decoded from the connection being served
    received,  \* tag of the response the last client read before end of file
    sig,       \* position of the signal task
    cfgfile,   \* ~/.config/kidex.ron as it is on disk
    opts,      \* kidex-client: the QueryOptions of its last find or query
    printed,   \* kidex-client: the subcommand last run and the entries it printed
    cand,      \* scoring: the candidate (path as components of text, is_dir)
    argv,      \* scoring: the tokens parsed and added to opts.query so far
    result,    \* scoring: calc_score of opts.query on the candidate
    scored,    \* filter: its Vec of (score, entry) before sort or pick_top_entries
    filtered,  \* filter: the same Vec as it is returned
    at         \* filter: "idle", or where it is about its Vec: "scored" | "picked"

vars == <<fs, watches, nextWd, kqueue, inner, config, batch, pc, lock, ctl,
          ipc, reply, ops, cmd, received, sig, cfgfile, opts, printed,
          cand, argv, result, scored, filtered, at>>

\* The locals of the client's scoring and filtering.
scoring == <<cand, argv, result, scored, filtered, at>>

\* ------------------------------------------------------------ file system
KindOf(f, p) == IF p = <<>> THEN "dir" ELSE IF p \in Paths THEN f[p] ELSE "none"

IsAbs(s) == Len(s) > 0 /\ s[1] = RootPath

\* What the path string s names on disk (a relative path names nothing).
KindAt(f, s) == IF IsAbs(s) THEN KindOf(f, Tail(s)) ELSE "none"

Parent(p) == SubSeq(p, 1, Len(p) - 1)
Last(p) == p[Len(p)]
IsPrefix(p, q) == Len(p) <= Len(q) /\ SubSeq(q, 1, Len(p)) = p

\* ---------------------------------------------------------------- patterns
\* A glob is a literal, or "*" followed by a literal; both are anchored.
Matches(pat, s) ==
    IF pat.star
    THEN Len(pat.lit) <= Len(s)
         /\ SubSeq(s, Len(s) - Len(pat.lit) + 1, Len(s)) = pat.lit
    ELSE s = pat.lit

Ignored(wdir, s) == \E pat \in wdir.ignored : Matches(pat, s)

\* ------------------------------------------------------------------- index
File == [kind |-> "File", descriptor |-> NoDesc]
Directory(d) == [kind |-> "Directory", descriptor |-> d]

EmptyMap == [x \in {} |-> x]

DirectoryIndex(path, wdir, parent) ==
    [path |-> path, children |-> EmptyMap, watch_dir |-> wdir, parent |-> parent]

Insert(m, k, v) == [x \in DOMAIN m \cup {k} |-> IF x = k THEN v ELSE m[x]]
Remove(m, k) == [x \in DOMAIN m \ {k} |-> m[x]]
Extend(m, n) == [x \in DOMAIN m \cup DOMAIN n |-> IF x \in DOMAIN n THEN n[x] ELSE m[x]]

RECURSIVE GetPathFrom(_, _, _)
GetPathFrom(index, desc, fuel) ==
    IF desc = NoDesc \/ desc \notin DOMAIN index \/ fuel = 0
    THEN <<>>
    ELSE GetPathFrom(index, index[desc].parent, fuel - 1) \o <<index[desc].path>>

get_path(index, desc) == GetPathFrom(index, desc, Cardinality(DOMAIN index) + 1)

InsertChild(index, desc, path, child) ==
    [index EXCEPT ![desc].children = Insert(@, path, child)]

\* Ascending enumeration of a set of descriptors (a HashMap's iteration order
\* is arbitrary; the order only decides the order of the IGNORED events).
RECURSIVE SetToSeq(_)
SetToSeq(S) ==
    IF S = {} THEN <<>>
    ELSE LET m == CHOOSE x \in S : \A y \in S : x <= y
         IN <<m>> \o SetToSeq(S \ {m})

\* ------------------------------------------------------------------ kernel
Event(wd, mask, name) == [wd |-> wd, mask |-> mask, name |-> name]

\* inotify_add_watch: the descriptor of the watch already on that directory,
\* else a fresh one; fails when the path names no directory or the user's
\* watches are used up.
AddWatch(w, nwd, s) ==
    IF KindAt(fs, s) # "dir"
    THEN [ok |-> FALSE, wd |-> NoDesc, watches |-> w, nextWd |-> nwd]
    ELSE LET old == {d \in DOMAIN w : w[d] = Tail(s)}
         IN IF old # {}
            THEN [ok |-> TRUE, wd |-> CHOOSE d \in old : TRUE,
                  watches |-> w, nextWd |-> nwd]
            ELSE IF Cardinality(DOMAIN w) >= MaxWatches
            THEN [ok |-> FALSE, wd |-> NoDesc, watches |-> w, nextWd |-> nwd]
            ELSE [ok |-> TRUE, wd |-> nwd,
                  watches |-> Insert(w, nwd, Tail(s)), nextWd |-> nwd + 1]

\* inotify_rm_watch that leaves every watch registered
RmWatchesNone(k, S) == k

\* inotify_rm_watch of every descriptor of S that is still registered; each
\* removal queues an IGNORED event.  The others fail with EINVAL (logged).
RmWatches(k, S) ==
    LET live == S \cap DOMAIN k.watches
        order == SetToSeq(live)
    IN [k EXCEPT !.watches = [d \in DOMAIN k.watches \ live |-> k.watches[d]],
                 !.kqueue = @ \o [i \in 1..Len(order) |->
                                    Event(order[i], "IGNORED", NoName)]]

\* ----------------------------------------------------------------- indexer
\* fs::read_dir(dir): one work item per entry, tagged with the descriptor.
Entries(dir, desc) ==
    LET Present(n) == KindAt(fs, dir \o <<n>>) # "none"
        names == SelectSeq(NameOrder, Present)
    IN [i \in 1..Len(names) |-> [desc |-> desc, dir |-> dir, name |-> names[i]]]

\* The work-queue loop of index_dir (index.rs 232-311); acc is the local
\* index being built plus the kernel's watch table.
RECURSIVE ScanQueue(_, _, _)
ScanQueue(acc, work, wdir) ==
    IF work = <<>> THEN acc
    ELSE
    LET it == work[Len(work)]
        rest == SubSeq(work, 1, Len(work) - 1)
        path == it.name
        kind == KindAt(fs, it.dir \o <<path>>)
        full_path == get_path(acc.index, it.desc) \o <<path>>
    IN
    IF Ignored(wdir, <<path>>) THEN ScanQueue(acc, rest, wdir)
    ELSE IF kind = "dir" /\ wdir.recurse THEN
        LET aw == AddWatch(acc.watches, acc.nextWd, full_path)
        IN IF aw.ok
           THEN ScanQueue(
                  [index |-> InsertChild(
                                Insert(acc.index, aw.wd,
                                       DirectoryIndex(path, wdir, it.desc)),
                                it.desc, path, Directory(aw.wd)),
                   watches |-> aw.watches, nextWd |-> aw.nextWd],
                  rest \o Entries(full_path, aw.wd), wdir)
           ELSE ScanQueue(
                  [acc EXCEPT !.index =
                      InsertChild(@, it.desc, path, Directory(NoDesc))],
                  rest, wdir)
    ELSE IF kind = "dir" THEN
        ScanQueue([acc EXCEPT !.index =
                      InsertChild(@, it.desc, path, Directory(NoDesc))], rest, wdir)
    ELSE IF kind = "file" THEN
        ScanQueue([acc EXCEPT !.index = InsertChild(@, it.desc, path, File)],
                  rest, wdir)
    ELSE ScanQueue(acc, rest, wdir)

\* Index::index_dir: res is "Some" (Ok(Some)), "None" (Ok(None)) or "Err".
index_dir(k, wdir, path, parent) ==
    LET full_path == IF parent # NoDesc
                     THEN get_path(k.inner, parent) \o <<path>>
                     ELSE <<path>>
        aw == AddWatch(k.watches, k.nextWd, full_path)
        acc == ScanQueue(
                 [index |-> Insert(EmptyMap, aw.wd,
                                   DirectoryIndex(path, wdir, parent)),
                  watches |-> aw.watches, nextWd |-> aw.nextWd],
                 Entries(full_path, aw.wd), wdir)
    IN
    IF Ignored(wdir, <<path>>)
    THEN [res |-> "None", child |-> File, index |-> EmptyMap, k |-> k]
    ELSE IF ~aw.ok
    THEN [res |-> "Err", child |-> File, index |-> EmptyMap, k |-> k]
    ELSE [res |-> "Some", child |-> Directory(aw.wd), index |-> acc.index,
          k |-> [k EXCEPT !.watches = acc.watches, !.nextWd = acc.nextWd]]

\* create_index without the test of watch_dir.recurse (index.rs 91)
create_index_recursing(k, path, wd) ==
    LET wdir == k.inner[wd].watch_dir
        full_path == get_path(k.inner, wd) \o <<path>>
        kind == KindAt(fs, full_path)
        r == index_dir(k, wdir, path, wd)
    IN
    IF Ignored(wdir, full_path) THEN k
    ELSE IF kind = "none" THEN k
    ELSE IF kind = "dir" THEN
        IF r.res = "Some"
        THEN [r.k EXCEPT !.inner =
                 InsertChild(Extend(k.inner, r.index), wd, path, r.child)]
        ELSE k
    ELSE [k EXCEPT !.inner = InsertChild(@, wd, path, File)]

\* Index::create_index
create_index(k, path, wd) ==
    LET wdir == k.inner[wd].watch_dir
        full_path == get_path(k.inner, wd) \o <<path>>
        kind == KindAt(fs, full_path)
        r == index_dir(k, wdir, path, wd)
    IN
    IF Ignored(wdir, full_path) THEN k
    ELSE IF kind = "none" THEN k
    ELSE IF kind = "dir" /\ wdir.recurse THEN
        IF r.res = "Some"
        THEN [r.k EXCEPT !.inner =
                 InsertChild(Extend(k.inner, r.index), wd, path, r.child)]
        ELSE k
    ELSE IF kind = "dir" THEN
        [k EXCEPT !.inner = InsertChild(@, wd, path, Directory(NoDesc))]
    ELSE [k EXCEPT !.inner = InsertChild(@, wd, path, File)]

SubDirs(index, d) ==
    IF d \notin DOMAIN index THEN {}
    ELSE {index[d].children[n].descriptor :
            n \in {m \in DOMAIN index[d].children :
                     /\ index[d].children[m].kind = "Directory"
                     /\ index[d].children[m].descriptor # NoDesc}}

RECURSIVE Reach(_, _, _)
Reach(index, frontier, seen) ==
    IF frontier = {} THEN seen
    ELSE Reach(index,
               UNION {SubDirs(index, d) : d \in frontier} \ (seen \cup frontier),
               seen \cup frontier)

\* traverse that does not follow the children (index.rs 172-181)
traverse_top(index, desc) ==
    [slice |-> {desc},
     status |-> IF desc \notin DOMAIN index THEN "panic" ELSE "ok"]

\* Index::traverse: the descriptors reachable from desc.  The lookup
\* unwraps (a missing descriptor panics) and the loop keeps no visited set
\* (a cycle never ends).
traverse(index, desc) ==
    LET slice == Reach(index, {desc}, {})
    IN [slice |-> slice,
        status |-> IF \E d \in slice : d \notin DOMAIN index THEN "panic"
                   ELSE IF \E d \in slice :
                             d \in Reach(index, SubDirs(index, d), {})
                   THEN "hang"
                   ELSE "ok"]

\* Index::remove_index
remove_index(k, path, wd) ==
    LET children == k.inner[wd].children
        child == children[path]
        inner1 == [k.inner EXCEPT ![wd].children = Remove(@, path)]
        t == traverse(inner1, child.descriptor)
        k1 == RmWatches(k, t.slice)
    IN
    IF path \notin DOMAIN children THEN k
    ELSE IF child.kind = "Directory" /\ child.descriptor # NoDesc THEN
        IF t.status # "ok" THEN [k EXCEPT !.status = t.status]
        ELSE IF wd \in t.slice THEN [k EXCEPT !.status = "panic"]
        ELSE [k1 EXCEPT !.inner = [d \in DOMAIN inner1 \ t.slice |-> inner1[d]]]
    ELSE [k EXCEPT !.inner = inner1]

\* clear_index without self.inner.clear() (index.rs 358)
clear_index_keeping(k) ==
    IF \E d \in DOMAIN k.inner : d \notin DOMAIN k.watches
    THEN [k EXCEPT !.status = "err"]
    ELSE RmWatches(k, DOMAIN k.inner)

\* Index::clear_index: the first rm_watch that fails returns the error
\* before the index is cleared.
clear_index(k) ==
    IF \E d \in DOMAIN k.inner : d \notin DOMAIN k.watches
    THEN [k EXCEPT !.status = "err"]
    ELSE [RmWatches(k, DOMAIN k.inner) EXCEPT !.inner = EmptyMap]

\* Index::full_index over the one configured WatchDir; an error of
\* clear_index is returned to the caller.
full_index(k, cfg) ==
    LET k1 == clear_index(k)
        new_watch_dir == [cfg.dir EXCEPT !.ignored = @ \cup cfg.ignored]
        r == index_dir(k1, new_watch_dir, cfg.dir.path, NoDesc)
    IN
    IF k1.status # "ok" THEN k1
    ELSE IF r.res = "Some" THEN [r.k EXCEPT !.inner = Extend(k1.inner, r.index)]
    ELSE k1

\* ---------------------------------------------------------- configurations
Lit(s) == [star |-> FALSE, lit |-> s]
Star(s) == [star |-> TRUE, lit |-> s]

WatchDir(recurse, ignored) ==
    [path |-> RootPath, ignored |-> ignored, recurse |-> recurse]

\* kidex.ron: one WatchDir, and the global ignore list.
Configs ==
    { [dir |-> WatchDir(TRUE, {}), ignored |-> {}],
      [dir |-> WatchDir(FALSE, {}), ignored |-> {}],
      [dir |-> WatchDir(TRUE, {}), ignored |-> {Lit(<<"b">>)}],
      [dir |-> WatchDir(TRUE, {Star(<<"b">>)}), ignored |-> {}] }

\* No connection is being served.
NoCmd == [tag |-> "none", path |-> NoName]

\* QueryOptions.limit: Option<usize>, None and Some(n)
NoLimit == <<>>
Limit(n) == <<n>>

\* kidex-client has not run: QueryOptions::default() (the Query of no
\* parameter, CaseOption::Smart, no limit), nothing printed.
NoOpts == [query |-> [parameters |-> <<>>, case_option |-> "Smart"],
           limit |-> NoLimit]
NoOutput == [subcommand |-> "none", entries |-> {}]

\* Nothing is being scored or filtered.
NoScoring ==
    /\ cand = [path |-> <<>>, directory |-> FALSE]
    /\ argv = <<>>
    /\ result = 0
    /\ scored = <<>>
    /\ filtered = <<>>
    /\ at = "idle"

\* The trees the daemon may find at start-up.
EmptyFs == [p \in Paths |-> "none"]
InitTrees ==
    { EmptyFs,
      [EmptyFs EXCEPT ![<<"a">>] = "dir", ![<<"a", "a">>] = "dir"],
      [EmptyFs EXCEPT ![<<"a">>] = "dir", ![<<"b">>] = "file"] }

\* The program's index and the kernel's tables, as the indexer takes them.
K == [inner |-> inner, watches |-> watches, nextWd |-> nextWd,
      kqueue |-> kqueue, status |-> "ok"]

Commit(k) ==
    /\ inner' = k.inner
    /\ watches' = k.watches
    /\ nextWd' = k.nextWd
    /\ kqueue' = k.kqueue

\* main, up to the event loop: the initial full index of an empty Index.
Init ==
    /\ fs \in InitTrees
    /\ config \in Configs
    /\ LET k == full_index([inner |-> EmptyMap, watches |-> EmptyMap,
                            nextWd |-> 1, kqueue |-> <<>>, status |-> "ok"],
                           config)
       IN /\ inner = k.inner
          /\ watches = k.watches
          /\ nextWd = k.nextWd
          /\ kqueue = k.kqueue
    /\ batch = <<>>
    /\ pc = "recv"
    /\ lock = "free"
    /\ ctl = <<>>
    /\ ipc = "accept"
    /\ reply = [tag |-> "none", entries |-> {}]
    /\ ops = 0
    /\ cmd = NoCmd
    /\ received = "none"
    /\ sig = "waiting"
    /\ cfgfile = [format |-> "ron", config |-> config]
    /\ opts = NoOpts
    /\ printed = NoOutput
    /\ NoScoring

\* The daemon is alive: a panic of the main task ends the process, a
\* traverse over a cycle never returns.
Running == pc \notin {"panicked", "hung", "done"}

\* --------------------------------------------- other processes on the disk
WatchOn(p) == {d \in DOMAIN watches : watches[d] = p}
Notify(p, mask) ==
    LET ws == SetToSeq(WatchOn(Parent(p)))
    IN [i \in 1..Len(ws) |-> Event(ws[i], mask, Last(p))]

FsFrame == UNCHANGED <<nextWd, inner, config, batch, pc, lock, ctl, ipc, reply,
                       cmd, received, sig, cfgfile, opts, printed, scoring>>

Create(p, kind) ==
    /\ Running
    /\ ops < MaxOps
    /\ fs[p] = "none"
    /\ KindOf(fs, Parent(p)) = "dir"
    /\ fs' = [fs EXCEPT ![p] = kind]
    /\ kqueue' = kqueue \o Notify(p, "CREATE")
    /\ ops' = ops + 1
    /\ UNCHANGED watches
    /\ FsFrame

Touch == \E p \in Paths : Create(p, "file")
Mkdir == \E p \in Paths : Create(p, "dir")

\* rm -r p: unlink and rmdir bottom-up.  The kernel drops the watch of a
\* removed directory and queues IGNORED for it after the parent's DELETE.
\* The result is [fs, watches, events].
RECURSIVE RmTree(_, _)
RmTree(s, p) ==
    LET RECURSIVE Below(_, _)
        Below(st, i) ==
            IF i > Len(NameOrder) THEN st
            ELSE LET q == p \o <<NameOrder[i]>>
                 IN Below(IF KindOf(st.fs, q) # "none" THEN RmTree(st, q) ELSE st,
                          i + 1)
        s1 == IF s.fs[p] = "dir" THEN Below(s, 1) ELSE s
        own == SetToSeq({d \in DOMAIN s1.watches : s1.watches[d] = p})
        up == SetToSeq({d \in DOMAIN s1.watches : s1.watches[d] = Parent(p)})
    IN [fs |-> [s1.fs EXCEPT ![p] = "none"],
        watches |-> [d \in DOMAIN s1.watches \ {own[i] : i \in 1..Len(own)} |->
                        s1.watches[d]],
        events |-> s1.events
                     \o [i \in 1..Len(up) |-> Event(up[i], "DELETE", Last(p))]
                     \o [i \in 1..Len(own) |-> Event(own[i], "IGNORED", NoName)]]

DeleteAt(p) ==
    /\ Running
    /\ ops < MaxOps
    /\ fs[p] # "none"
    /\ LET s == RmTree([fs |-> fs, watches |-> watches, events |-> <<>>], p)
       IN /\ fs' = s.fs
          /\ watches' = s.watches
          /\ kqueue' = kqueue \o s.events
    /\ ops' = ops + 1
    /\ FsFrame

Delete == \E p \in Paths : DeleteAt(p)

\* rename(p, q) onto a free name; a watch stays on the directory it is on.
Moved(p, q, r) == IF IsPrefix(p, r) THEN q \o SubSeq(r, Len(p) + 1, Len(r)) ELSE r
Rename ==
    \E p, q \in Paths :
        /\ Running
        /\ ops < MaxOps
        /\ fs[p] # "none"
        /\ fs[q] = "none"
        /\ KindOf(fs, Parent(q)) = "dir"
        /\ ~IsPrefix(p, q)
        /\ \A r \in Paths : IsPrefix(p, r) /\ fs[r] # "none" => Moved(p, q, r) \in Paths
        /\ fs' = [r \in Paths |->
                    IF IsPrefix(q, r) THEN KindOf(fs, Moved(q, p, r))
                    ELSE IF IsPrefix(p, r) THEN "none"
                    ELSE fs[r]]
        /\ watches' = [d \in DOMAIN watches |-> Moved(p, q, watches[d])]
        /\ kqueue' = kqueue \o Notify(p, "MOVED_FROM") \o Notify(q, "MOVED_TO")
        /\ ops' = ops + 1
        /\ FsFrame

\* ------------------------------------------------------------ the event loop
MainFrame == UNCHANGED <<fs, config, ipc, reply, ops, cmd, received, sig, cfgfile,
                         opts, printed, scoring>>

\* ron::from_str::<Config> (main.rs 102) and serde_json::from_str::<Config>
\* (main.rs 146): each accepts the text of its own format only.
from_ron(file) == [ok |-> file.format = "ron", config |-> file.config]
from_json(file) == [ok |-> file.format = "json", config |-> file.config]

\* events_rx.try_recv(), main.rs 135-167.  The Reload arm reads and parses
\* the file before it takes the lock; fs::read_to_string(..).unwrap() panics
\* when the file cannot be read.
Recv ==
    /\ pc = "recv"
    /\ \/ /\ ctl = <<>>
          /\ pc' = "read"
          /\ UNCHANGED <<ctl, config>>
       \/ /\ ctl # <<>>
          /\ Head(ctl) = "FullIndex"
          /\ ctl' = Tail(ctl)
          /\ pc' = "full_wait"
          /\ UNCHANGED config
       \/ /\ ctl # <<>>
          /\ Head(ctl) = "Quit"
          /\ ctl' = Tail(ctl)
          /\ pc' = "quit"
          /\ UNCHANGED config
       \/ /\ ctl # <<>>
          /\ Head(ctl) = "Reload"
          /\ ctl' = Tail(ctl)
          /\ IF cfgfile.format = "missing"
             THEN pc' = "panicked" /\ UNCHANGED config
             ELSE IF from_json(cfgfile).ok
             THEN pc' = "full_wait" /\ config' = from_json(cfgfile).config
             ELSE pc' = "read" /\ UNCHANGED config
    /\ UNCHANGED <<watches, nextWd, kqueue, inner, batch, lock>>
    /\ UNCHANGED <<fs, ipc, reply, ops, cmd, received, sig, cfgfile, opts, printed, scoring>>

\* index.lock().await of the FullIndex arm
LockFull ==
    /\ pc = "full_wait"
    /\ lock = "free"
    /\ lock' = "main"
    /\ pc' = "full_locked"
    /\ UNCHANGED <<watches, nextWd, kqueue, inner, batch, ctl>>
    /\ MainFrame

\* .full_index(&mut inotify, &config).unwrap(), the guard dropped after it
FullIndex ==
    /\ pc = "full_locked"
    /\ LET k == full_index(K, config)
       IN IF k.status = "ok"
          THEN Commit(k) /\ pc' = "read"
          ELSE UNCHANGED <<watches, nextWd, kqueue, inner>> /\ pc' = "panicked"
    /\ lock' = "free"
    /\ UNCHANGED <<batch, ctl>>
    /\ MainFrame

\* inotify.read_events(&mut buffer): the queued events that fit the buffer,
\* or WouldBlock and the next iteration.
ReadEvents ==
    /\ pc = "read"
    /\ \/ /\ kqueue = <<>>
          /\ pc' = "recv"
          /\ UNCHANGED <<kqueue, batch>>
       \/ \E n \in 1..Len(kqueue) :
            /\ batch' = SubSeq(kqueue, 1, n)
            /\ kqueue' = SubSeq(kqueue, n + 1, Len(kqueue))
            /\ pc' = "ev_wait"
    /\ UNCHANGED <<watches, nextWd, inner, lock, ctl>>
    /\ MainFrame

\* index.lock().await at the head of the for loop
EvLock ==
    /\ pc = "ev_wait"
    /\ lock = "free"
    /\ lock' = "main"
    /\ pc' = "ev_locked"
    /\ UNCHANGED <<watches, nextWd, kqueue, inner, batch, ctl>>
    /\ MainFrame

\* main.rs 184-194: an event of an unknown watcher or without a name
Invalid(index, e) == e.wd \notin DOMAIN index \/ e.name = NoName

\* What is left of the read after an invalid event: continue 'event_loop
AfterInvalid(events) == <<>>

\* main.rs 202-217: dispatch by mask
Dispatch(k, e) ==
    IF e.mask \in {"CREATE", "MOVED_TO"} THEN create_index(k, e.name, e.wd)
    ELSE IF e.mask \in {"DELETE", "MOVED_FROM"} THEN remove_index(k, e.name, e.wd)
    ELSE k

\* The body of the for loop for one event, under the lock.
EvApply ==
    /\ pc = "ev_locked"
    /\ LET e == Head(batch)
           k == Dispatch(K, e)
       IN IF Invalid(inner, e)
          THEN /\ batch' = AfterInvalid(batch)
               /\ pc' = IF batch' = <<>> THEN "recv" ELSE "ev_wait"
               /\ lock' = "free"
               /\ UNCHANGED <<watches, nextWd, kqueue, inner>>
          ELSE IF k.status = "ok"
          THEN /\ Commit(k)
               /\ batch' = Tail(batch)
               /\ pc' = IF batch' = <<>> THEN "recv" ELSE "ev_wait"
               /\ lock' = "free"
          ELSE /\ UNCHANGED <<watches, nextWd, kqueue, inner, batch>>
               /\ pc' = IF k.status = "hang" THEN "hung" ELSE "panicked"
               /\ lock' = IF k.status = "hang" THEN "main" ELSE "free"
    /\ UNCHANGED ctl
    /\ MainFrame

\* index.lock().await.clear_index(&mut inotify).unwrap() after the loop; the
\* guard is a temporary of the statement.
ClearOnQuit ==
    /\ pc = "quit"
    /\ lock = "free"
    /\ LET k == clear_index(K)
       IN IF k.status = "ok"
          THEN Commit(k) /\ pc' = "cleared"
          ELSE UNCHANGED <<watches, nextWd, kqueue, inner>> /\ pc' = "panicked"
    /\ UNCHANGED <<batch, ctl, lock>>
    /\ MainFrame

\* events_tx.send(()).await.unwrap(), then main returns: the send fails when
\* the IPC task has ended and dropped the receiver.
NotifyIpc ==
    /\ pc = "cleared"
    /\ pc' = IF ipc \in {"exited", "panicked"} THEN "panicked" ELSE "done"
    /\ UNCHANGED <<watches, nextWd, kqueue, inner, batch, ctl, lock>>
    /\ MainFrame

\* ------------------------------------------------------------- signal task
SigFrame == UNCHANGED <<fs, watches, nextWd, kqueue, inner, config, batch, pc,
                        lock, ipc, reply, ops, cmd, received, cfgfile, opts,
                        printed, scoring>>

\* A termination signal is delivered: signals.next().await returns.
Signal ==
    /\ Running
    /\ sig = "waiting"
    /\ sig' = "received"
    /\ UNCHANGED ctl
    /\ SigFrame

\* signal_tx.send(EventLoopMsg::Quit).await
SignalPost ==
    /\ Running
    /\ sig = "received"
    /\ Len(ctl) < ChannelCap
    /\ ctl' = Append(ctl, "Quit")
    /\ sig' = "done"
    /\ SigFrame

\* ------------------------------------------------------- the configuration
\* What an editor may leave in ~/.config/kidex.ron: a Config in RON, the
\* same in JSON, text that is neither, or no file.
Formats == {"ron", "json", "other", "missing"}

EditConfig ==
    /\ Running
    /\ ops < MaxOps
    /\ ops' = ops + 1
    /\ \E f \in Formats, c \in Configs :
         /\ cfgfile' = [format |-> f,
                        config |-> IF f \in {"ron", "json"} THEN c
                                   ELSE cfgfile.config]
         /\ cfgfile' # cfgfile
    /\ UNCHANGED <<fs, watches, nextWd, kqueue, inner, config, batch, pc, lock,
                   ctl, ipc, reply, cmd, received, sig, opts, printed, scoring>>

\* ---------------------------------------------------------------- IPC task
Response(tag, entries) == [tag |-> tag, entries |-> entries]
IndexEntry(path, child) == [path |-> path, directory |-> child.kind = "Directory"]

\* The paths a client asks for: none, the root, a bare segment.
Requests == {NoName, RootPath, "a"}

\* Number of children of the nodes of S (the length of the flat_map)
RECURSIVE CountChildren(_, _)
CountChildren(index, S) ==
    IF S = {} THEN 0
    ELSE LET d == CHOOSE x \in S : TRUE
         IN Cardinality(DOMAIN index[d].children) + CountChildren(index, S \ {d})

\* The replies GetIndex may build (main.rs 270-305); find() takes the first
\* match of the HashMap's iteration.  status "panic": traverse unwrapped None.
\* len is the length of the Vec whose entries the response holds.
GetIndex(index, path) ==
    IF path = NoName
    THEN {[status |-> "ok",
           len |-> CountChildren(index, DOMAIN index),
           response |-> Response("Index",
              UNION {{IndexEntry(<<n>>, index[d].children[n]) :
                        n \in DOMAIN index[d].children} : d \in DOMAIN index})]}
    ELSE IF \A d \in DOMAIN index : index[d].path # path
    THEN {[status |-> "ok", len |-> 0, response |-> Response("NotFound", {})]}
    ELSE {LET t == traverse(index, d)
          IN [status |-> t.status,
              len |-> CountChildren(index, t.slice \cap DOMAIN index),
              response |-> Response("Index",
                 UNION {{IndexEntry(get_path(index, x) \o <<n>>, index[x].children[n]) :
                           n \in DOMAIN index[x].children} :
                        x \in t.slice \cap DOMAIN index})]
          : d \in {x \in DOMAIN index : index[x].path = path}}

\* query (kidex/src/query.rs): every child, under its full path; the score
\* is the constant 0 and entries with score >= 0 are kept.
query(index) ==
    LET score == 0
    IN UNION {{IndexEntry(get_path(index, d) \o <<n>>, index[d].children[n]) :
                 n \in {m \in DOMAIN index[d].children : score >= 0}} :
              d \in DOMAIN index}

IpcFrame == UNCHANGED <<fs, watches, nextWd, kqueue, inner, config, batch, pc,
                        sig, cfgfile, opts, printed, scoring>>

\* IpcCommand (kidex-common/src/lib.rs)
Command(tag, path) == [tag |-> tag, path |-> path]
Control == {"FullIndex", "Reload", "Quit"}
Queries == {Command("GetIndex", path) : path \in Requests}
               \cup {Command("QueryIndex", NoName)}

\* listener.accept(), read_until and the decoding of one command out of C,
\* and for a control command its arm up to write_all: the message is posted
\* and Success is written into the stream's buffer.
Accept(C) ==
    /\ Running
    /\ ipc = "accept"
    /\ ops < MaxOps
    /\ ops' = ops + 1
    /\ \E c \in C :
         /\ cmd' = c
         /\ IF c.tag \in Control
            THEN /\ Len(ctl) < ChannelCap
                 /\ ctl' = Append(ctl, c.tag)
                 /\ reply' = Response("Success", {})
                 /\ ipc' = IF c.tag = "Quit" THEN "break" ELSE "flush"
            ELSE /\ ipc' = "lock_wait"
                 /\ UNCHANGED <<ctl, reply>>
    /\ UNCHANGED <<lock, received>>
    /\ IpcFrame

\* Clients that ask for the index or for a full index.
IpcAccept == Accept(Queries \cup {Command("FullIndex", NoName)})

\* Clients that send the control commands.
IpcAcceptControl == Accept({Command(tag, NoName) : tag \in Control})

\* The arm reading the index without index.lock().await (main.rs 271)
IpcLockFree ==
    /\ Running
    /\ ipc = "lock_wait"
    /\ lock' = "ipc"
    /\ ipc' = "reading"
    /\ UNCHANGED <<ctl, reply, ops, cmd, received>>
    /\ IpcFrame

\* index.lock().await of the GetIndex arm (and of the QueryIndex arm)
IpcLock ==
    /\ Running
    /\ ipc = "lock_wait"
    /\ lock = "free"
    /\ lock' = "ipc"
    /\ ipc' = "reading"
    /\ UNCHANGED <<ctl, reply, ops, cmd, received>>
    /\ IpcFrame

\* The GetIndex arm under the guard, up to the encoded reply; a panic
\* unwinds and drops the guard.
IpcGetIndex ==
    /\ Running
    /\ ipc = "reading"
    /\ cmd.tag = "GetIndex"
    /\ \E r \in GetIndex(inner, cmd.path) :
         IF r.status = "ok"
         THEN reply' = r.response /\ ipc' = "writing" /\ lock' = lock
         ELSE reply' = reply /\ ipc' = "panicked" /\ lock' = "free"
    /\ UNCHANGED <<ctl, ops, cmd, received>>
    /\ IpcFrame

\* stream.write_all(&buf).await.unwrap() of the GetIndex arm returns: the
\* client has taken what does not fit the buffers.  The guard, a local of the
\* arm, is dropped after it.
IpcWrite ==
    /\ Running
    /\ ipc = "writing"
    /\ ipc' = "flush"
    /\ lock' = "free"
    /\ UNCHANGED <<ctl, reply, ops, cmd, received>>
    /\ IpcFrame

\* The QueryIndex arm: query(&index, &opts) under the guard, which is
\* released before the reply is flushed
IpcQueryIndex ==
    /\ Running
    /\ ipc = "reading"
    /\ cmd.tag = "QueryIndex"
    /\ reply' = Response("Index", query(inner))
    /\ ipc' = "flush"
    /\ lock' = "free"
    /\ UNCHANGED <<ctl, ops, cmd, received>>
    /\ IpcFrame

\* stream.flush(); the stream is dropped and the client reads the reply
IpcFlush ==
    /\ Running
    /\ ipc = "flush"
    /\ ipc' = "accept"
    /\ received' = reply.tag
    /\ reply' = Response("none", {})
    /\ cmd' = NoCmd
    /\ UNCHANGED <<ctl, lock, ops>>
    /\ IpcFrame

\* break in the Quit arm: the task ends before stream.flush(); the BufStream
\* is dropped with the reply in its buffer and the client reads end of file.
IpcBreak ==
    /\ Running
    /\ ipc = "break"
    /\ ipc' = "exited"
    /\ received' = "none"
    /\ reply' = Response("none", {})
    /\ cmd' = NoCmd
    /\ UNCHANGED <<ctl, lock, ops>>
    /\ IpcFrame

\* _ = ipc_rx.recv() => break
IpcExit ==
    /\ pc = "done"
    /\ ipc = "accept"
    /\ ipc' = "exited"
    /\ UNCHANGED <<ctl, lock, ops, reply, cmd, received>>
    /\ IpcFrame

Next ==
    \/ Touch \/ Mkdir \/ Delete \/ Rename
    \/ Recv \/ LockFull \/ FullIndex \/ ReadEvents \/ EvLock \/ EvApply
    \/ IpcAccept \/ IpcLock \/ IpcGetIndex \/ IpcWrite \/ IpcQueryIndex \/ IpcFlush

Spec == Init /\ [][Next]_vars

\* Only regular files are created and deleted; no client connects.
Unlink == \E p \in Paths : fs[p] = "file" /\ DeleteAt(p)

NextFiles ==
    \/ Touch \/ Unlink
    \/ Recv \/ ReadEvents \/ EvLock \/ EvApply

SpecFiles == Init /\ [][NextFiles]_vars

\* A watched directory is removed, with all below it, while the kernel
\* queue still holds a CREATE event of a watch inside it.
DeleteRacing ==
    \E p \in Paths :
        /\ WatchOn(p) # {}
        /\ \E i \in 1..Len(kqueue) :
              /\ kqueue[i].mask = "CREATE"
              /\ kqueue[i].wd \in DOMAIN watches
              /\ IsPrefix(p, watches[kqueue[i].wd])
        /\ DeleteAt(p)

NextRace ==
    \/ Touch \/ Mkdir \/ DeleteRacing
    \/ Recv \/ ReadEvents \/ EvLock \/ EvApply

SpecRace == Init /\ [][NextRace]_vars

\* ------------------------------------------------------------------ queries
\* Text is a sequence of characters, a path the sequence of its components
\* (the root directory is the component "/").
Lower(c) == IF c = "A" THEN "a" ELSE IF c = "B" THEN "b" ELSE c
to_lowercase(s) == [i \in 1..Len(s) |-> Lower(s[i])]

starts_with(s, w) == Len(w) <= Len(s) /\ SubSeq(s, 1, Len(w)) = w
ends_with(s, w) == Len(w) <= Len(s) /\ SubSeq(s, Len(s) - Len(w) + 1, Len(s)) = w
contains(s, w) ==
    \E i \in 0..(Len(s) - Len(w)) : SubSeq(s, i + 1, i + Len(w)) = w

RECURSIVE trim_start_matches(_, _)
trim_start_matches(s, c) ==
    IF s # <<>> /\ Head(s) = c THEN trim_start_matches(Tail(s), c) ELSE s

RECURSIVE trim_end_matches(_, _)
trim_end_matches(s, c) ==
    IF s # <<>> /\ s[Len(s)] = c
    THEN trim_end_matches(SubSeq(s, 1, Len(s) - 1), c)
    ELSE s

trim_matches(s, c) == trim_end_matches(trim_start_matches(s, c), c)
trim(s) == trim_matches(s, " ")

\* Keyword::new taking one slash from each end of the trimmed word
Keyword_one_slash(word, exact_match) ==
    LET trimmed == trim(word)
        headless == IF starts_with(trimmed, <<"/">>) THEN Tail(trimmed) ELSE trimmed
    IN [word |-> IF ends_with(headless, <<"/">>)
                 THEN SubSeq(headless, 1, Len(headless) - 1) ELSE headless,
        exact_match |-> exact_match]

\* Keyword::new
Keyword(word, exact_match) ==
    [word |-> trim_matches(trim(word), "/"), exact_match |-> exact_match]

\* The comparison keeps the case: CaseOption::Match, or Smart with a word
\* that is not all lower case.
CaseSensitive(keyword, case_option) ==
    \/ case_option = "Match"
    \/ case_option = "Smart" /\ to_lowercase(keyword.word) # keyword.word

\* is_at_beginning comparing as the text is written, whatever the case option
is_at_beginning_as_written(keyword, candidate, case_option) ==
    starts_with(candidate, keyword.word)

\* Keyword::is_at_beginning
is_at_beginning(keyword, candidate, case_option) ==
    IF CaseSensitive(keyword, case_option)
    THEN starts_with(candidate, keyword.word)
    ELSE starts_with(to_lowercase(candidate), to_lowercase(keyword.word))

\* Keyword::is_in
is_in(keyword, candidate, case_option) ==
    LET cased_candidate == IF CaseSensitive(keyword, case_option)
                           THEN candidate ELSE to_lowercase(candidate)
        cased_word == IF CaseSensitive(keyword, case_option)
                      THEN keyword.word ELSE to_lowercase(keyword.word)
    IN IF keyword.exact_match
       THEN cased_candidate = cased_word
       ELSE contains(cased_candidate, cased_word)

\* enum QueryParameter: Type(FileType), Keyword, PathKeyword, DirectParent
QueryParameter(kind, file_type, keyword) ==
    [kind |-> kind, file_type |-> file_type, keyword |-> keyword]
Type(file_type) == QueryParameter("Type", file_type, Keyword(<<>>, FALSE))

\* QueryParameter::from_str
from_str(s) ==
    LET keyword == Keyword(s, ends_with(s, <<"/">>))
    IN IF s = <<"/">> THEN Type("DirOnly")
       ELSE IF s = <<"f", "/">> THEN Type("FilesOnly")
       ELSE IF starts_with(s, <<"/", "/">>)
       THEN QueryParameter("DirectParent", "All", keyword)
       ELSE IF starts_with(s, <<"/">>)
       THEN QueryParameter("PathKeyword", "All", keyword)
       ELSE QueryParameter("Keyword", "All", keyword)

\* struct Query, Query::default
Query(parameters, case_option) ==
    [parameters |-> parameters, case_option |-> case_option]
DefaultQuery == Query(<<>>, "Smart")

\* add_parameter without the retain of the non-Type parameters
add_parameter_keeping(qry, param) ==
    [qry EXCEPT !.parameters = Append(@, param)]

\* Query::add_parameter
add_parameter(qry, param) ==
    LET NotType(q) == q.kind # "Type"
        retained == IF param.kind = "Type"
                    THEN SelectSeq(qry.parameters, NotType)
                    ELSE qry.parameters
    IN [qry EXCEPT !.parameters = Append(retained, param)]

\* Path::file_name, then unwrap_or_default: the last component, unless the
\* path is empty or ends in the root directory
file_name(path) ==
    IF path = <<>> \/ path[Len(path)] = <<"/">> THEN <<>> ELSE path[Len(path)]

\* Path::parent (None taken as the empty path)
path_parent(path) == IF path = <<>> THEN <<>> ELSE SubSeq(path, 1, Len(path) - 1)

\* The loop of the PathKeyword arm with a backdepth that stays at 20
RECURSIVE PathKeywordLoopLevel(_, _, _, _, _)
PathKeywordLoopLevel(keyword, path, case_option, k, acc) ==
    IF k > Len(path) - 2 THEN acc
    ELSE PathKeywordLoopLevel(keyword, path, case_option, k + 1,
            IF is_in(keyword, path[Len(path) - 1 - k], case_option)
            THEN [in_path |-> TRUE, added |-> acc.added + 20]
            ELSE acc)

\* The loop of the PathKeyword arm from the k-th component above the
\* basename on: acc holds in_path and what was added to the score.
RECURSIVE PathKeywordLoop(_, _, _, _, _)
PathKeywordLoop(keyword, path, case_option, k, acc) ==
    IF k > Len(path) - 2 THEN acc
    ELSE LET backdepth == 20 - 4 * k
             dir_component == path[Len(path) - 1 - k]
         IN PathKeywordLoop(keyword, path, case_option, k + 1,
               IF is_in(keyword, dir_component, case_option)
               THEN [in_path |-> TRUE, added |-> acc.added + backdepth]
               ELSE acc)

\* The for loop of Query::calc_score from parameter i on
RECURSIVE ScoreFrom(_, _, _, _, _)
ScoreFrom(qry, i, score, path, is_dir) ==
    IF i > Len(qry.parameters) THEN score
    ELSE
    LET param == qry.parameters[i]
        keyword == param.keyword
        basename == file_name(path)
        loop == PathKeywordLoop(keyword, path, qry.case_option, 0,
                                [in_path |-> FALSE, added |-> 0])
        parent_path_name == file_name(path_parent(path))
    IN
    IF param.kind = "Type" THEN
        IF param.file_type = "FilesOnly" /\ is_dir THEN -8888
        ELSE IF param.file_type = "DirOnly" /\ ~is_dir THEN -8888
        ELSE ScoreFrom(qry, i + 1, score, path, is_dir)
    ELSE IF param.kind = "Keyword" THEN
        IF ~keyword.exact_match
           /\ is_at_beginning(keyword, basename, qry.case_option)
        THEN ScoreFrom(qry, i + 1, score + 50, path, is_dir)
        ELSE IF is_in(keyword, basename, qry.case_option)
        THEN ScoreFrom(qry, i + 1, score + 10, path, is_dir)
        ELSE -2222
    ELSE IF param.kind = "PathKeyword" THEN
        IF ~loop.in_path THEN -5555
        ELSE ScoreFrom(qry, i + 1, score + loop.added, path, is_dir)
    ELSE
        IF is_in(keyword, parent_path_name, qry.case_option)
        THEN ScoreFrom(qry, i + 1, score + 1, path, is_dir)
        ELSE -9999

\* calc_score taking every candidate for a regular file
calc_score_of_file(qry, path, is_dir) == ScoreFrom(qry, 1, 0, path, FALSE)

\* Query::calc_score
calc_score(qry, path, is_dir) == ScoreFrom(qry, 1, 0, path, is_dir)

\* ------------------------------------------------------------ kidex-client
\* Path::components of an entry's path: a name is one component, its text
\* the name's single character; the root /r is the root directory and r.
RECURSIVE components(_)
components(path) ==
    IF path = <<>> THEN <<>>
    ELSE (IF Head(path) = RootPath THEN << <<"/">>, <<"r">> >>
          ELSE << <<Head(path)>> >>) \o components(Tail(path))

\* struct QueryOptions (query, limit)
QueryOptions(qry, limit) == [query |-> qry, limit |-> limit]

\* Query::from_query_elements: one parameter per token, added in order to
\* the default query
RECURSIVE from_query_elements(_)
from_query_elements(args) ==
    IF args = <<>> THEN DefaultQuery
    ELSE add_parameter(from_query_elements(SubSeq(args, 1, Len(args) - 1)),
                       from_str(args[Len(args)]))

\* The scorer filter calls: Query::calc_score on the entry's path
client_calc_score(qry, path, directory) ==
    calc_score(qry, components(path), directory)

\* -------------------------------------------------------- top-k selection
\* A pair is (score, entry). The position a pair of this score takes in a
\* list in descending order: behind every pair whose score is not less.
InsertAtStrictly(top, score) ==
    1 + Cardinality({i \in 1..Len(top) : top[i][1] > score})

InsertAt(top, score) ==
    1 + Cardinality({i \in 1..Len(top) : top[i][1] >= score})

InsertPair(top, pair) ==
    SubSeq(top, 1, InsertAt(top, pair[1]) - 1) \o <<pair>>
        \o SubSeq(top, InsertAt(top, pair[1]), Len(top))

\* The running list of at most limit pairs, from the i-th incoming pair on:
\* a pair below the limit-th score is discarded, any other is inserted and
\* the tail beyond limit dropped.
RECURSIVE RunningTop(_, _, _, _)
RunningTop(entries, i, top, limit) ==
    IF i > Len(entries) THEN top
    ELSE IF limit > 0 /\ Len(top) >= limit /\ entries[i][1] < top[limit][1]
    THEN RunningTop(entries, i + 1, top, limit)
    ELSE RunningTop(entries, i + 1,
                    SubSeq(InsertPair(top, entries[i]), 1,
                           IF Len(top) < limit THEN Len(top) + 1 ELSE limit),
                    limit)

\* pick_top_entries: no more entries than the limit are sorted descending by
\* score, stably; of more, the running list is returned.
pick_top_entries(entries, limit) ==
    IF Len(entries) <= limit
    THEN RunningTop(entries, 1, <<>>, Len(entries))
    ELSE RunningTop(entries, 1, <<>>, limit)

\* ------------------------------------------------------------------ filter
\* The filter_map of filter: the pairs (score, entry) of score > 0, in the
\* order of the index
filter_map(index, query_opts) ==
    LET pairs == [i \in 1..Len(index) |->
                    <<client_calc_score(query_opts.query, index[i].path,
                                        index[i].directory), index[i]>>]
        Positive(pair) == pair[1] > 0
    IN SelectSeq(pairs, Positive)

\* Vec::sort_by_key on the score: ascending and stable
RECURSIVE sort_by_key(_)
sort_by_key(v) ==
    IF v = <<>> THEN <<>>
    ELSE LET sorted == sort_by_key(SubSeq(v, 1, Len(v) - 1))
             last == v[Len(v)]
             k == Cardinality({i \in 1..Len(sorted) : sorted[i][1] <= last[1]})
         IN SubSeq(sorted, 1, k) \o <<last>> \o SubSeq(sorted, k + 1, Len(sorted))

\* Vec::reverse
reverse(v) == [i \in 1..Len(v) |-> v[Len(v) + 1 - i]]

\* filter (kidex-client)
filter(index, query_opts) ==
    LET kept == filter_map(index, query_opts)
        ordered == IF query_opts.limit # NoLimit
                   THEN reverse(pick_top_entries(kept, query_opts.limit[1]))
                   ELSE sort_by_key(kept)
    IN [i \in 1..Len(ordered) |-> ordered[i][2]]

\* The orders a Vec may hold the entries of an index in.
Orders(entries) ==
    {v \in [1..Cardinality(entries) -> entries] :
        \A i, j \in 1..Cardinality(entries) : i # j => v[i] # v[j]}

\* The positional arguments of a find or query invocation.
MaxArgs == 2
Tokens ==
    { <<"a">>, <<"b">>, <<"A">>, <<"a", "/">>, <<"/", "a">>, <<"/", "r">>,
      <<"/", "/", "a">>, <<"/", "/", "r">>, <<"/">>, <<"f", "/">> }
ArgLists == UNION {[1..n -> Tokens] : n \in 0..MaxArgs}

\* Trees with files in the root and below it.
QueryTrees ==
    { [EmptyFs EXCEPT ![<<"a">>] = "dir", ![<<"a", "b">>] = "file",
                      ![<<"b">>] = "file"],
      [EmptyFs EXCEPT ![<<"a">>] = "dir", ![<<"a", "a">>] = "dir",
                      ![<<"b">>] = "dir", ![<<"b", "a">>] = "file"] }

\* The daemon after start-up over one of these trees.
InitQuery ==
    /\ fs \in QueryTrees
    /\ config \in Configs
    /\ LET k == full_index([inner |-> EmptyMap, watches |-> EmptyMap,
                            nextWd |-> 1, kqueue |-> <<>>, status |-> "ok"],
                           config)
       IN /\ inner = k.inner
          /\ watches = k.watches
          /\ nextWd = k.nextWd
          /\ kqueue = k.kqueue
    /\ batch = <<>>
    /\ pc = "recv"
    /\ lock = "free"
    /\ ctl = <<>>
    /\ ipc = "accept"
    /\ reply = [tag |-> "none", entries |-> {}]
    /\ ops = 0
    /\ cmd = NoCmd
    /\ received = "none"
    /\ sig = "waiting"
    /\ cfgfile = [format |-> "ron", config |-> config]
    /\ opts = NoOpts
    /\ printed = NoOutput
    /\ NoScoring

ClientFrame == UNCHANGED <<fs, watches, nextWd, kqueue, inner, config, batch, pc,
                           lock, ctl, ipc, reply, ops, cmd, received, sig, cfgfile>>

\* kidex-client find <args>: get_index(None), answered by the GetIndex arm,
\* then filter.
ClientFind ==
    /\ ipc = "accept"
    /\ lock = "free"
    /\ \E args \in ArgLists : \E r \in GetIndex(inner, NoName) :
       \E index \in Orders(r.response.entries) :
          /\ opts' = QueryOptions(from_query_elements(args), NoLimit)
          /\ printed' = [subcommand |-> "find",
                         entries |-> {filter(index, opts')[i] :
                                        i \in 1..Len(filter(index, opts'))}]
    /\ UNCHANGED scoring
    /\ ClientFrame

\* kidex-client query <args>: query_index(opts), answered by query(&index,
\* &opts); what comes back is printed.
ClientQuery ==
    /\ ipc = "accept"
    /\ lock = "free"
    /\ \E args \in ArgLists :
          /\ opts' = QueryOptions(from_query_elements(args), NoLimit)
          /\ printed' = [subcommand |-> "query", entries |-> query(inner)]
    /\ UNCHANGED scoring
    /\ ClientFrame

NextQuery == ClientFind \/ ClientQuery

SpecQuery == InitQuery /\ [][NextQuery]_vars

\* ------------------------------------------------------------------ scoring
\* The daemon started over one of the trees, no client yet.
Started(trees) ==
    /\ fs \in trees
    /\ config \in {c \in Configs : c.dir.recurse /\ c.dir.ignored = {} /\ c.ignored = {}}
    /\ LET k == full_index([inner |-> EmptyMap, watches |-> EmptyMap,
                            nextWd |-> 1, kqueue |-> <<>>, status |-> "ok"],
                           config)
       IN /\ inner = k.inner
          /\ watches = k.watches
          /\ nextWd = k.nextWd
          /\ kqueue = k.kqueue
    /\ batch = <<>>
    /\ pc = "recv"
    /\ lock = "free"
    /\ ctl = <<>>
    /\ ipc = "accept"
    /\ reply = [tag |-> "none", entries |-> {}]
    /\ ops = 0
    /\ cmd = NoCmd
    /\ received = "none"
    /\ sig = "waiting"
    /\ cfgfile = [format |-> "ron", config |-> config]
    /\ printed = NoOutput

\* Query::calc_score is handed a path and is_dir: absolute paths of files and
\* directories, a bare name, a path nine components deep.
CandidatePaths ==
    { << <<"/">>, <<"r","o","o","t">>, <<"s","r","c">>, <<"m","a","i","n",".","r","s">> >>,
      << <<"/">>, <<"r","o","o","t">>, <<"s","r","c">>, <<"l","i","b">>,
         <<"u","t","i","l",".","r","s">> >>,
      << <<"/">>, <<"a">>, <<"a">>, <<"a","b">> >>,
      << <<"/">>, <<"a">>, <<"A","b">> >>,
      << <<"/">>, <<"a">>, <<"b">> >>,
      << <<"/">>, <<"s","r","c">>, <<"b","a">> >>,
      << <<"a","b">> >>,
      << <<"/">>, <<"s","r","c">>, <<"a">>, <<"a">>, <<"a">>, <<"a">>, <<"a">>, <<"a">>,
         <<"a","b">> >> }

CaseOptions == {"Match", "Ignore", "Smart"}

\* The tokens of an invocation, at most MaxParams of them.
MaxParams == 3
ScoreTokens ==
    { <<"a">>, <<"A">>, <<"b", "/">>, <<"r", "s">>, <<"/", "a">>,
      <<"/", "s", "r", "c">>, <<"/", "/", "a">>, <<"/", "/", "l", "i", "b", "/">>,
      <<"/">>, <<"f", "/">>, <<"/", "/", "/", "a">>, <<" ", "a", "/", "/">>,
      <<"/", "a", "/">>, <<"/", " ", "a">> }

InitScore ==
    /\ Started({EmptyFs})
    /\ cand \in [path : CandidatePaths, directory : BOOLEAN]
    /\ \E case_option \in CaseOptions :
          opts = QueryOptions(Query(<<>>, case_option), NoLimit)
    /\ argv = <<>>
    /\ result = calc_score(opts.query, cand.path, cand.directory)
    /\ scored = <<>>
    /\ filtered = <<>>
    /\ at = "idle"

\* One more token of the command line: QueryParameter::from_str,
\* Query::add_parameter, and the score of the candidate under the query so far.
AddToken ==
    /\ Len(argv) < MaxParams
    /\ \E token \in ScoreTokens :
          /\ argv' = Append(argv, token)
          /\ opts' = [opts EXCEPT !.query = add_parameter(@, from_str(token))]
          /\ result' = calc_score(opts'.query, cand.path, cand.directory)
    /\ UNCHANGED <<cand, scored, filtered, at, printed>>
    /\ ClientFrame

NextScore == AddToken

SpecScore == InitScore /\ [][NextScore]_vars

\* -------------------------------------------------------- top-k streams
\* Streams of at most MaxStream scored entries, the i-th entry named by the
\* i-th letter, and the limits of a selection.
MaxStream == 4
MaxLimit == 3
Letters == <<"A", "B", "C", "D", "E", "F">>
Scores == {3, 5, 8}
Streams ==
    UNION {{[i \in 1..n |-> <<s[i], Letters[i]>>] : s \in [1..n -> Scores]} :
           n \in 0..MaxStream}

InitTop ==
    /\ Started({EmptyFs})
    /\ cand = [path |-> <<>>, directory |-> FALSE]
    /\ argv = <<>>
    /\ result = 0
    /\ \E limit \in 0..MaxLimit : opts = QueryOptions(DefaultQuery, Limit(limit))
    /\ scored \in Streams
    /\ filtered = scored
    /\ at = "scored"

\* filtered = pick_top_entries(filtered, limit)
PickTop ==
    /\ at = "scored"
    /\ filtered' = pick_top_entries(filtered, opts.limit[1])
    /\ at' = "picked"
    /\ UNCHANGED <<cand, argv, result, scored, opts, printed>>
    /\ ClientFrame

NextTop == PickTop
SpecTop == InitTop /\ [][NextTop]_vars

\* ---------------------------------------------------------- filter's order
\* The entries an index may hold, by absolute path.
FilterEntries ==
    { [path |-> <<RootPath, "a">>, directory |-> TRUE],
      [path |-> <<RootPath, "b">>, directory |-> FALSE],
      [path |-> <<RootPath, "a", "a">>, directory |-> FALSE],
      [path |-> <<RootPath, "a", "b">>, directory |-> FALSE] }

\* kidex-client find <args> --limit <limit>, before the index is there.
InitFilter ==
    /\ Started({EmptyFs})
    /\ NoScoring
    /\ \E args \in ArgLists : \E limit \in {NoLimit} \cup {Limit(n) : n \in 0..MaxLimit} :
          opts = QueryOptions(from_query_elements(args), limit)

\* filter(index, &opts) on an index received, and the entries printed.
ClientFilter ==
    /\ at = "idle"
    /\ \E entries \in SUBSET FilterEntries : \E index \in Orders(entries) :
          /\ scored' = filter_map(index, opts)
          /\ filtered' = filter(index, opts)
          /\ printed' = [subcommand |-> "find",
                         entries |-> {filtered'[i] : i \in 1..Len(filtered')}]
    /\ at' = "returned"
    /\ UNCHANGED <<cand, argv, result, opts>>
    /\ ClientFrame

NextFilter == ClientFilter
SpecFilter == InitFilter /\ [][NextFilter]_vars

\* The control commands and the configuration file: clients send FullIndex,
\* Reload and Quit, the file is edited, a termination signal may arrive.
NextCtl ==
    \/ EditConfig
    \/ Signal \/ SignalPost
    \/ Recv \/ LockFull \/ FullIndex \/ ReadEvents \/ EvLock \/ EvApply
    \/ ClearOnQuit \/ NotifyIpc
    \/ IpcAcceptControl \/ IpcFlush \/ IpcBreak \/ IpcExit

SpecCtl == Init /\ [][NextCtl]_vars

\* A termination signal while directories come and go; no client connects.
NextShutdown ==
    \/ Mkdir \/ Delete
    \/ Signal \/ SignalPost
    \/ Recv \/ ReadEvents \/ EvLock \/ EvApply
    \/ ClearOnQuit \/ NotifyIpc
    \/ IpcExit

\* One step of the main task.
MainStep ==
    \/ Recv \/ ReadEvents \/ EvLock \/ EvApply
    \/ ClearOnQuit \/ NotifyIpc

\* The tokio runtime polls every task that is ready: a task that can take a
\* step is not passed over for ever.
SpecShutdown ==
    /\ Init
    /\ [][NextShutdown]_vars
    /\ WF_vars(MainStep)
    /\ WF_vars(SignalPost)
    /\ WF_vars(IpcExit)

\* Files are created while clients ask for the index or for a full index.
NextLive ==
    \/ Touch
    \/ Recv \/ LockFull \/ FullIndex \/ ReadEvents \/ EvLock \/ EvApply
    \/ IpcAccept \/ IpcLock \/ IpcGetIndex \/ IpcWrite \/ IpcQueryIndex \/ IpcFlush

\* The awaits and the event handling of the loop (full_index apart), and the
\* steps of the IPC task that wait for no client.
LoopStep == Recv \/ LockFull \/ ReadEvents \/ EvLock \/ EvApply
IpcStep == IpcLock \/ IpcGetIndex \/ IpcQueryIndex

\* The tokio runtime polls every task that is ready.  Nothing makes a client
\* connect or read its reply: write_all and flush return when the client has
\* read.  full_index is synchronous code that ends: FullIndex is enabled
\* exactly when pc = "full_locked" and leaves it, so its weak fairness is
\* []<>(pc # "full_locked").
SpecLive ==
    /\ Init
    /\ [][NextLive]_vars
    /\ WF_vars(LoopStep)
    /\ []<>(pc # "full_locked")
    /\ WF_vars(IpcStep)

\* ------------------------------------------------------------------ claims
\* The event loop is between two iterations.
IterationDone == pc = "recv"

\* ... and the kernel holds no event for it.
Drained == pc = "recv" /\ kqueue = <<>>

\* C1: after every iteration of the event loop, every child recorded as
\* Directory with a watch handle h has h as a key of the index.
ChildHandlesInIndex ==
    IterationDone => \A d \in DOMAIN inner : SubDirs(inner, d) \subseteq DOMAIN inner

\* C2: after every iteration, every non-root node has a parent that is a key
\* of the index and holds, under the node's segment, a Directory child whose
\* handle is the node's own.
ParentLinksSound ==
    IterationDone =>
        \A d \in DOMAIN inner :
            inner[d].parent # NoDesc =>
                /\ inner[d].parent \in DOMAIN inner
                /\ inner[d].path \in DOMAIN inner[inner[d].parent].children
                /\ inner[inner[d].parent].children[inner[d].path] = Directory(d)

\* C3: after every iteration the watches the kernel holds are the keys of
\* the index.  Stated where it is weakest: once no event is pending.
WatchesAreIndexKeys == Drained => DOMAIN watches = DOMAIN inner

\* The index without its handles: per node its resolved path, and per child
\* its kind and the resolved path of the node it points to.
Shape(index) ==
    {[path |-> get_path(index, d),
      root |-> index[d].parent = NoDesc,
      children |-> [n \in DOMAIN index[d].children |->
                      [kind |-> index[d].children[n].kind,
                       node |-> get_path(index, index[d].children[n].descriptor)]]] :
     d \in DOMAIN index}

\* Two indexes are the same tree: node for node, up to the handles.
SameTree(i, j) ==
    Shape(i) = Shape(j) /\ Cardinality(DOMAIN i) = Cardinality(DOMAIN j)

\* A full index by a daemon started now.
FromScratch ==
    full_index([inner |-> EmptyMap, watches |-> EmptyMap, nextWd |-> 1,
                kqueue |-> <<>>, status |-> "ok"], config)

\* C4: under a recursive root, once the events of a sequence of file
\* creations and deletions are drained, the index is the one a full index
\* of the file system builds from scratch (up to the handles).
IncrementalEqualsFull ==
    Drained /\ config.dir.recurse => SameTree(inner, FromScratch.inner)

\* C5: full_index run twice in succession, the file system and the
\* configuration unchanged, gives the index and the number of kernel
\* watches that one run gives.
FullIndexIdempotent ==
    LET once == full_index(K, config)
        twice == full_index(once, config)
    IN once.status = "ok" =>
          /\ twice.status = "ok"
          /\ SameTree(twice.inner, once.inner)
          /\ Cardinality(DOMAIN twice.watches) = Cardinality(DOMAIN once.watches)

\* Two clients asked for a full index and nothing else happened: the
\* second full index has just run over what the first one built, a root
\* with a directory in a directory.
FullIndexRanTwice ==
    /\ pc = "read"
    /\ ops = 2
    /\ ctl = <<>>
    /\ nextWd = 10
    /\ DOMAIN inner = {7, 8, 9}
    /\ DOMAIN watches = {7, 8, 9}
    /\ \E i \in 1..Len(kqueue) : kqueue[i] = Event(4, "IGNORED", NoName)

\* The paths the index holds: every child entry, resolved.
IndexedPaths ==
    UNION {{get_path(inner, d) \o <<n>> : n \in DOMAIN inner[d].children} :
           d \in DOMAIN inner}

\* C6: every removal being that of a watched subtree with CREATE events
\* from inside it still queued, once the queue is drained the index holds
\* no child entry and no node of what is gone from the disk.
RemovedSubtreeGone ==
    Drained =>
        /\ \A s \in IndexedPaths : KindAt(fs, s) # "none"
        /\ \A d \in DOMAIN inner : KindAt(fs, get_path(inner, d)) = "dir"

\* C7: no child entry of the index has a name that matches an effective
\* ignore pattern of its WatchDir, whether a create event or a full index
\* put it there.
NoIgnoredEntry ==
    IterationDone =>
        \A d \in DOMAIN inner : \A n \in DOMAIN inner[d].children :
            ~Ignored(inner[d].watch_dir, <<n>>)

\* C8: under a root with recurse = false, a CREATE event for a subdirectory
\* records Directory with no handle and changes neither the watches nor the
\* nodes; no watch is ever on anything but the root, so nothing that happens
\* inside a subdirectory reaches the index.
NonRecursiveCreate ==
    /\ [](~config.dir.recurse =>
            /\ \A d \in DOMAIN watches : watches[d] = <<>>
            /\ \A d \in DOMAIN inner : inner[d].parent = NoDesc /\ SubDirs(inner, d) = {}
            /\ \A i \in 1..Len(kqueue) :
                  kqueue[i].name # NoName => Len(get_path(inner, kqueue[i].wd)) <= 1)
    /\ [][(/\ pc = "ev_locked"
           /\ pc' # pc
           /\ ~Invalid(inner, Head(batch))
           /\ Head(batch).mask = "CREATE"
           /\ ~inner[Head(batch).wd].watch_dir.recurse
           /\ ~Ignored(inner[Head(batch).wd].watch_dir,
                       get_path(inner, Head(batch).wd) \o <<Head(batch).name>>)
           /\ KindAt(fs, get_path(inner, Head(batch).wd) \o <<Head(batch).name>>) = "dir")
          => /\ inner' = InsertChild(inner, Head(batch).wd, Head(batch).name,
                                     Directory(NoDesc))
             /\ watches' = watches
             /\ nextWd' = nextWd]_vars

\* mkdir b is all that happened, and its CREATE event has been applied.
SubdirRecordedUnwatched ==
    /\ ~config.dir.recurse
    /\ ops = 1
    /\ fs = [EmptyFs EXCEPT ![<<"b">>] = "dir"]
    /\ nextWd = 2
    /\ kqueue = <<>>
    /\ 1 \in DOMAIN inner
    /\ "b" \in DOMAIN inner[1].children
    /\ inner[1].children["b"] = Directory(NoDesc)

\* C9: an event with an unknown handle or without a name is discarded: the
\* index is left as it is and the other events of the same read are still
\* dispatched.
InvalidEventOnlyDiscarded ==
    [][pc = "ev_locked" /\ pc' # pc /\ Invalid(inner, Head(batch))
       => inner' = inner /\ batch' = Tail(batch)]_vars

\* C10: the IPC task reads the index only while the event loop is outside
\* the processing of an event and outside a full index.
IndexAccessExclusive ==
    ~(ipc = "reading" /\ pc \in {"ev_locked", "full_locked"})

\* The IPC task reads while the event loop waits for the lock between two
\* events of one read.
ReadBetweenEvents ==
    /\ ipc = "reading"
    /\ pc = "ev_wait"
    /\ lock = "ipc"
    /\ batch # <<>>
    /\ inner # EmptyMap

\* The IPC task is suspended on the client's socket.
ClientIo == {"writing", "flush"}

\* C11: while the IPC task is blocked on client socket I/O it does not hold
\* the index lock, so a client that stops reading cannot keep the event loop
\* from it.
NoLockDuringClientIo == ipc \in ClientIo => lock # "ipc"

\* The roots of the index whose configured path is path.
RootsAt(index, path) ==
    {d \in DOMAIN index : index[d].parent = NoDesc /\ index[d].path = path}

\* C14: GetIndex with a path replies NotFound exactly when no root of the
\* index has that configured path; the segment of a node below a root is
\* not found.
NotFoundIffNoRoot ==
    [][(/\ ipc = "reading"
        /\ ipc' = "writing"
        /\ cmd.tag = "GetIndex"
        /\ cmd.path # NoName)
       => (reply'.tag = "NotFound" <=> RootsAt(inner, cmd.path) = {})]_vars

\* The nodes under root: root, and the node of every handle that a child
\* of a node under root holds.
RECURSIVE Under(_, _, _)
Under(index, S, n) ==
    IF n = 0 THEN S
    ELSE Under(index, S \cup UNION {SubDirs(index, d) : d \in S}, n - 1)

WatchFailureRecorded ==
    [][(/\ pc = "ev_locked"
        /\ pc' # pc
        /\ ~Invalid(inner, Head(batch))
        /\ Head(batch).mask \in {"CREATE", "MOVED_TO"}
        /\ inner[Head(batch).wd].watch_dir.recurse
        /\ ~Ignored(inner[Head(batch).wd].watch_dir, <<Head(batch).name>>)
        /\ ~Ignored(inner[Head(batch).wd].watch_dir,
                    get_path(inner, Head(batch).wd) \o <<Head(batch).name>>)
        /\ KindAt(fs, get_path(inner, Head(batch).wd) \o <<Head(batch).name>>) = "dir"
        /\ ~AddWatch(watches, nextWd,
                     get_path(inner, Head(batch).wd) \o <<Head(batch).name>>).ok)
       => /\ inner' = InsertChild(inner, Head(batch).wd, Head(batch).name,
                                  Directory(NoDesc))
          /\ watches' = watches]_vars

\* C20: whenever Clear runs (at the start of a full index, and after the loop
\* at shutdown) it ends with an empty index and with no kernel watch left for
\* any handle the index held, also when a handle's directory is gone and
\* rm_watch reports an error for it.
ClearLeavesNothing ==
    pc \in {"full_locked", "quit"} =>
        LET k == clear_index(K)
        IN /\ k.status = "ok"
           /\ k.inner = EmptyMap
           /\ DOMAIN inner \cap DOMAIN k.watches = {}

\* C13: for every control command the IPC task posts the matching message to
\* the event loop, and the connection is closed only after Success has been
\* flushed to the client, for Quit as for the others.
ControlAcknowledged ==
    [][/\ (ipc = "accept" /\ ipc' # ipc /\ cmd'.tag \in Control)
           => ctl' = Append(ctl, cmd'.tag)
       /\ (cmd.tag \in Control /\ ipc # ipc' /\ ipc' \in {"accept", "exited"})
           => received' = "Success"]_vars

\* C12: a termination signal leads to the end of main with the index cleared:
\* the index is empty and the kernel holds no watch.
SignalShutsDown ==
    sig = "received" ~> (pc = "done" /\ inner = EmptyMap /\ DOMAIN watches = {})

\* C18: a Reload whose file cannot be parsed (no text of a Config, or no
\* readable file) keeps the configuration and goes on with the iteration, the
\* index and the watches as they were; the configuration changes only together
\* with a full index.
ReloadKeepsOnFailure ==
    [][(pc = "recv" /\ pc' # pc /\ ctl # <<>> /\ Head(ctl) = "Reload")
       => /\ cfgfile.format \in {"other", "missing"}
             => config' = config /\ pc' = "read"
          /\ config' # config => pc' = "full_wait"
          /\ inner' = inner /\ watches' = watches]_vars

\* The children of the index, each under its absolute path.
AbsoluteEntries(index) ==
    UNION {{IndexEntry(get_path(index, d) \o <<n>>, index[d].children[n]) :
              n \in DOMAIN index[d].children} : d \in DOMAIN index}

\* C16: kidex-client query prints exactly the entries whose score under the
\* query is >= 0, and kidex-client find exactly those it was sent whose score
\* is > 0: the query of no parameter gives every entry to query and none to
\* find, and neither prints an entry that a sentinel eliminates.
ScoreDecidesOutput ==
    /\ printed.subcommand = "query" =>
          printed.entries =
             {e \in AbsoluteEntries(inner) :
                 calc_score(opts.query, components(e.path), e.directory) >= 0}
    /\ printed.subcommand = "find" =>
          \A e \in printed.entries :
              calc_score(opts.query, components(e.path), e.directory) > 0
    /\ (printed.subcommand = "find" /\ opts.query.parameters = <<>>) =>
          printed.entries = {}

\* C17: find prints a child of the index exactly when the child's score on
\* its absolute path is > 0, also under /word and //word keywords.
FindScoresAbsolutePaths ==
    printed.subcommand = "find" =>
        \A d \in DOMAIN inner : \A n \in DOMAIN inner[d].children :
            IndexEntry(<<n>>, inner[d].children[n]) \in printed.entries
            <=> calc_score(opts.query,
                           components(get_path(inner, d) \o <<n>>),
                           inner[d].children[n].kind = "Directory") > 0

\* The values calc_score returns for an eliminated candidate.
Sentinels == {-8888, -2222, -5555, -9999}

\* The positions of the Type parameters that the candidate mismatches.
TypeMismatches ==
    {i \in 1..Len(opts.query.parameters) :
        /\ opts.query.parameters[i].kind = "Type"
        /\ \/ opts.query.parameters[i].file_type = "FilesOnly" /\ cand.directory
           \/ opts.query.parameters[i].file_type = "DirOnly" /\ ~cand.directory}

\* C21 as stated: a query with a type constraint that the candidate
\* mismatches scores it -8888, whatever its other parameters are and in
\* whatever order they were added.
TypeMismatchScores8888 ==
    TypeMismatches # {} => result = -8888

\* C21, amended: a query with a type constraint that the candidate mismatches
\* eliminates it with a sentinel: -8888, unless a parameter standing before
\* the Type parameter eliminates the candidate first, and then with the
\* sentinel of that parameter.
TypeMismatchEliminates ==
    \A i \in TypeMismatches :
        LET before == Query(SubSeq(opts.query.parameters, 1, i - 1),
                            opts.query.case_option)
            s == calc_score(before, cand.path, cand.directory)
        IN result = IF s \in Sentinels THEN s ELSE -8888

\* A directory under a query of three parameters, the last one files only.
TypeMismatchAfterKeywords ==
    /\ TypeMismatches = {3}
    /\ result = -8888

\* The parameter the last step added, and the basename of the candidate.
Added == opts'.query.parameters[Len(opts'.query.parameters)]
Basename == file_name(cand.path)

\* Characters that are upper case.
Upper == {"A", "B"}

\* The text as the case mode compares it: as it is written when the mode is
\* match, or smart with an upper-case character in the word; in lower case
\* otherwise.
Compared(text, word, mode) ==
    IF mode = "Match" \/ (mode = "Smart" /\ \E i \in 1..Len(word) : word[i] \in Upper)
    THEN text
    ELSE to_lowercase(text)

\* What a basename keyword is worth: 0 stands for elimination.
KeywordWorth(keyword, mode) ==
    LET base == Compared(Basename, keyword.word, mode)
        word == Compared(keyword.word, keyword.word, mode)
    IN IF keyword.exact_match
       THEN IF base = word THEN 10 ELSE 0
       ELSE IF starts_with(base, word) THEN 50
       ELSE IF contains(base, word) THEN 10
       ELSE 0

\* C22: a basename keyword added to a query that does not eliminate the
\* candidate adds 50 when it is not exact and the basename starts with it, 10
\* when it is not exact and the basename only contains it, 10 when it is exact
\* and equals the basename, and makes the score -2222 otherwise; the
\* comparison follows the case mode.
KeywordContributes ==
    [][(argv' # argv /\ Added.kind = "Keyword" /\ result \notin Sentinels)
       => result' = IF KeywordWorth(Added.keyword, opts.query.case_option) = 0
                    THEN -2222
                    ELSE result + KeywordWorth(Added.keyword, opts.query.case_option)]_vars

\* Under smart case the keyword a has scored the basename Ab as a prefix.
LowerKeywordScoredPrefix ==
    /\ Basename = <<"A", "b">>
    /\ argv = << <<"a">> >>
    /\ opts.query.case_option = "Smart"
    /\ result = 50

\* The distances from the direct parent of the components, the basename left
\* out, that match the keyword: they contain its word, or equal it when the
\* keyword is exact, compared as the case mode says.
MatchingDistances(keyword, mode) ==
    {k \in 0..(Len(cand.path) - 2) :
        LET component == Compared(cand.path[Len(cand.path) - 1 - k], keyword.word, mode)
            word == Compared(keyword.word, keyword.word, mode)
        IN IF keyword.exact_match THEN component = word
           ELSE contains(component, word)}

RECURSIVE SumBackdepth(_)
SumBackdepth(distances) ==
    IF distances = {} THEN 0
    ELSE LET k == CHOOSE d \in distances : TRUE
         IN (20 - 4 * k) + SumBackdepth(distances \ {k})

RootSrcMainRs ==
    << <<"/">>, <<"r","o","o","t">>, <<"s","r","c">>, <<"m","a","i","n",".","r","s">> >>
RootSrcLibUtilRs ==
    << <<"/">>, <<"r","o","o","t">>, <<"s","r","c">>, <<"l","i","b">>,
       <<"u","t","i","l",".","r","s">> >>
SrcThenRs == << <<"/", "s", "r", "c">>, <<"r", "s">> >>

\* C23: an any-path keyword added to a query that does not eliminate the
\* candidate adds 20 - 4k for every component other than the basename that
\* matches it, k being the distance from the direct parent, and makes the
\* score -5555 when none matches; the tokens /src and rs score
\* /root/src/main.rs 30 and /root/src/lib/util.rs 26.
PathKeywordContributes ==
    [][/\ (argv' # argv /\ Added.kind = "PathKeyword" /\ result \notin Sentinels)
          => result' = IF MatchingDistances(Added.keyword, opts.query.case_option) = {}
                       THEN -5555
                       ELSE result + SumBackdepth(
                               MatchingDistances(Added.keyword, opts.query.case_option))
       /\ (argv' = SrcThenRs /\ cand.path = RootSrcMainRs) => result' = 30
       /\ (argv' = SrcThenRs /\ cand.path = RootSrcLibUtilRs) => result' = 26]_vars

\* /root/src/lib/util.rs has been scored 26 under the tokens /src and rs.
UtilRsScored26 ==
    /\ cand.path = RootSrcLibUtilRs
    /\ argv = SrcThenRs
    /\ result = 26

\* The parameters the tokens given so far parse to, in the order given.
Parsed == [i \in 1..Len(argv) |-> from_str(argv[i])]
IsType(param) == param.kind = "Type"
NotType(param) == param.kind # "Type"
TypePositions(params) == {i \in 1..Len(params) : IsType(params[i])}

\* C30: after any sequence of add_parameter calls the query holds at most one
\* Type parameter, it is the one added last among the Type parameters given,
\* and the other parameters are the ones given, in the order given.
OneTypeParameterTheLatest ==
    LET params == opts.query.parameters
    IN /\ Cardinality(TypePositions(params)) <= 1
       /\ TypePositions(Parsed) # {} => TypePositions(params) # {}
       /\ \A i \in TypePositions(params) :
             /\ TypePositions(Parsed) # {}
             /\ params[i] = Parsed[CHOOSE j \in TypePositions(Parsed) :
                                      \A l \in TypePositions(Parsed) : l <= j]
       /\ SelectSeq(params, NotType) = SelectSeq(Parsed, NotType)

\* Directories only, a keyword, then files only: the keyword and files only
\* are what the query holds.
SecondTypeReplacedFirst ==
    /\ argv = << <<"/">>, <<"a">>, <<"f", "/">> >>
    /\ Len(opts.query.parameters) = 2
    /\ opts.query.parameters[2] = Type("FilesOnly")

\* The token the last step gave.
Token == argv'[Len(argv')]

\* The kind of parameter a token stands for.
TokenKind(token) ==
    IF token \in {<<"/">>, <<"f", "/">>} THEN "Type"
    ELSE IF Len(token) >= 2 /\ token[1] = "/" /\ token[2] = "/" THEN "DirectParent"
    ELSE IF Len(token) >= 1 /\ token[1] = "/" THEN "PathKeyword"
    ELSE "Keyword"

RECURSIVE Without(_, _)
\* The text without any c at its ends.
Without(text, c) ==
    IF text # <<>> /\ Head(text) = c THEN Without(Tail(text), c)
    ELSE IF text # <<>> /\ text[Len(text)] = c
    THEN Without(SubSeq(text, 1, Len(text) - 1), c)
    ELSE text

\* The token without its marker (// of a direct-parent keyword, / of an
\* any-path keyword), without one trailing /, and without surrounding
\* whitespace.
WithoutMarkers(token) ==
    LET bare == Without(token, " ")
        unmarked == IF TokenKind(token) = "DirectParent" THEN SubSeq(bare, 3, Len(bare))
                    ELSE IF TokenKind(token) = "PathKeyword" THEN Tail(bare)
                    ELSE bare
        open == IF unmarked # <<>> /\ unmarked[Len(unmarked)] = "/"
                THEN SubSeq(unmarked, 1, Len(unmarked) - 1)
                ELSE unmarked
    IN Without(open, " ")

\* The parameter is of the token's kind; a Type parameter is directories only
\* for / and files only for f/; a keyword is exact iff the token ends with /.
Classified(param, token) ==
    /\ param.kind = TokenKind(token)
    /\ param.kind = "Type"
          => param.file_type = (IF token = <<"/">> THEN "DirOnly" ELSE "FilesOnly")
    /\ param.kind # "Type"
          => param.keyword.exact_match = (token[Len(token)] = "/")

\* C26 as stated: every token parses to the parameter of its kind, exact iff
\* it ends with /, whose text is the token with the leading / or //, the
\* trailing / and surrounding whitespace removed.
ParsedWithoutMarkers ==
    [][argv' # argv
       => /\ Classified(Added, Token)
          /\ Added.kind # "Type" => Added.keyword.word = WithoutMarkers(Token)]_vars

\* C26, amended: every token parses to the parameter of its kind, exact iff it
\* ends with /, whose text is the token with surrounding whitespace removed
\* and then every / at either end removed.
ParsedWithoutSlashes ==
    [][argv' # argv
       => /\ Classified(Added, Token)
          /\ Added.kind # "Type"
                => Added.keyword.word = Without(Without(Token, " "), "/")]_vars

\* The token ///a has been parsed to a direct-parent keyword of text a.
TripleSlashParsed ==
    /\ argv = << <<"/", "/", "/", "a">> >>
    /\ opts.query.parameters =
          << QueryParameter("DirectParent", "All", [word |-> <<"a">>, exact_match |-> FALSE]) >>

\* Where the pair stands in the stream. Every entry of a stream is distinct.
Place(pair) == CHOOSE i \in 1..Len(scored) : scored[i] = pair

\* The pair x of the stream is selected before y: its score is greater, or
\* the scores are equal and x came first.
Before(x, y) == x[1] > y[1] \/ (x[1] = y[1] /\ Place(x) < Place(y))

TopKExample == << <<5, "A">>, <<5, "B">>, <<5, "C">>, <<3, "D">> >>

\* C24: pick_top(xs, N) returns min(|xs|, N) pairs of xs in descending score
\* order, no pair left out scores higher than a pair returned, and pairs of
\* equal score keep their input order, among them and against the pairs left
\* out; [(5,A),(5,B),(5,C),(3,D)] with N = 2 gives [A, B].
PickTopStableDescending ==
    at = "picked" =>
        LET picked == {filtered[i] : i \in 1..Len(filtered)}
            stream == {scored[i] : i \in 1..Len(scored)}
        IN /\ Len(filtered) = (IF Len(scored) < opts.limit[1] THEN Len(scored) ELSE opts.limit[1])
           /\ Cardinality(picked) = Len(filtered)
           /\ picked \subseteq stream
           /\ \A i, j \in 1..Len(filtered) : i < j => Before(filtered[i], filtered[j])
           /\ \A x \in picked : \A y \in stream \ picked : Before(x, y)
           /\ (scored = TopKExample /\ opts.limit = Limit(2))
                 => filtered = << <<5, "A">>, <<5, "B">> >>

\* The two earliest of three pairs of score 5 have been selected.
EarliestOfEqualPicked ==
    /\ at = "picked"
    /\ scored = TopKExample
    /\ opts.limit = Limit(2)
    /\ filtered = << <<5, "A">>, <<5, "B">> >>

\* The score filter gave the entry, and where the entry stood in the index
\* among the entries kept.
ScoreOf(e) == client_calc_score(opts.query, e.path, e.directory)
Enumerated(e) == CHOOSE i \in 1..Len(scored) : scored[i][2] = e

\* C25: filter returns the entries highest score first when a limit is given
\* and lowest score first when none is; entries of equal score are in the
\* order the index enumerated them.
FilterOrder ==
    at = "returned" =>
        \A i, j \in 1..Len(filtered) : i < j =>
            /\ opts.limit # NoLimit => ScoreOf(filtered[i]) >= ScoreOf(filtered[j])
            /\ opts.limit = NoLimit => ScoreOf(filtered[i]) <= ScoreOf(filtered[j])
            /\ ScoreOf(filtered[i]) = ScoreOf(filtered[j])
                  => Enumerated(filtered[i]) < Enumerated(filtered[j])

\* The main task applies a remove event (DELETE or MOVED_FROM) whose handle
\* is in the index and which carries a name.
RemoveApplied ==
    /\ pc = "ev_locked"
    /\ pc' # "ev_locked"
    /\ ~Invalid(inner, Head(batch))
    /\ Head(batch).mask \in {"DELETE", "MOVED_FROM"}

\* The handles reachable from the child p of wd, when p is a directory with a
\* watch handle; none otherwise.
Subtree(wd, p) ==
    IF /\ p \in DOMAIN inner[wd].children
       /\ inner[wd].children[p].kind = "Directory"
       /\ inner[wd].children[p].descriptor # NoDesc
    THEN Reach(inner, {inner[wd].children[p].descriptor}, {})
    ELSE {}

\* C27: removing the name p under the handle wd, when p is a child with a
\* watch handle, takes every handle reachable from that handle out of the
\* kernel's watches and out of the index and takes p out of wd's children, all
\* other nodes staying as they are; when p is not a child of wd, the index and
\* the watches stay as they are.
RemoveTakesSubtreeOnly ==
    [][RemoveApplied =>
         LET wd == Head(batch).wd
             p == Head(batch).name
         IN /\ Subtree(wd, p) # {} =>
                  /\ DOMAIN inner' = DOMAIN inner \ Subtree(wd, p)
                  /\ DOMAIN watches' \cap Subtree(wd, p) = {}
                  /\ wd \in DOMAIN inner'
                  /\ p \notin DOMAIN inner'[wd].children
                  /\ \A n \in DOMAIN inner[wd].children \ {p} :
                        /\ n \in DOMAIN inner'[wd].children
                        /\ inner'[wd].children[n] = inner[wd].children[n]
                  /\ \A d \in DOMAIN inner' \ {wd} : inner'[d] = inner[d]
            /\ p \notin DOMAIN inner[wd].children =>
                  /\ inner' = inner
                  /\ watches' = watches]_vars

\* The handles get_path visits from desc on: it follows the parent links
\* until a node has no parent or a handle is not in the index.
RECURSIVE Chain(_, _, _)
Chain(index, desc, fuel) ==
    IF desc = NoDesc \/ desc \notin DOMAIN index \/ fuel = 0 THEN <<>>
    ELSE <<desc>> \o Chain(index, index[desc].parent, fuel - 1)

\* C29: in every index state, resolving a handle of the index visits no
\* handle twice, visits no more nodes than the tree is deep, ends at a node
\* without parent, every handle on the way being in the index, and returns
\* the configured path of that root joined with the segments down to the node.
ResolvingEndsAtRoot ==
    \A d \in DOMAIN inner :
        LET chain == Chain(inner, d, Cardinality(DOMAIN inner) + 1)
            last == chain[Len(chain)]
        IN /\ \A i, j \in 1..Len(chain) : i # j => chain[i] # chain[j]
           /\ Len(chain) <= MaxDepth + 1
           /\ inner[last].parent = NoDesc
           /\ inner[last].path = inner[last].watch_dir.path
           /\ get_path(inner, d) =
                 [i \in 1..Len(chain) |-> inner[chain[Len(chain) + 1 - i]].path]

\* The handles of the events the kernel holds or the loop has read.
EventHandles ==
    {kqueue[i].wd : i \in 1..Len(kqueue)} \cup {batch[i].wd : i \in 1..Len(batch)}

\* C28: the control messages leave the channel one per iteration, oldest
\* first, before the iteration reads kernel events; a full index is applied
\* when no event read earlier is left to apply, and the index it builds shares
\* no handle with the one it discards: the kernel has dropped those handles
\* and hands out no handle twice, and a handle enters the index only while
\* the kernel holds it, so an event read afterwards under a handle of the
\* discarded index finds no node to modify.
ControlBeforeEvents ==
    [][/\ ctl' # ctl =>
             \/ \E m \in Control : ctl' = Append(ctl, m)
             \/ /\ pc = "recv" /\ pc' # "recv"
                /\ ctl # <<>> /\ ctl' = Tail(ctl)
                /\ batch = <<>>
       /\ (pc # "recv" /\ pc' = "recv") => pc \in {"read", "ev_locked"}
       /\ (pc = "full_locked" /\ pc' = "read") =>
             /\ batch = <<>>
             /\ DOMAIN inner' \cap DOMAIN inner = {}
             /\ DOMAIN watches' \cap DOMAIN inner = {}
             /\ \A h \in EventHandles' : h \in DOMAIN inner => h \notin DOMAIN inner'
       /\ \A h \in DOMAIN inner \cup DOMAIN watches \cup EventHandles : h < nextWd
       /\ \A h \in DOMAIN watches' \ DOMAIN watches : h >= nextWd
       /\ \A h \in DOMAIN inner' \ DOMAIN inner : h \in DOMAIN watches']_vars

\* After a full index the loop has read a CREATE event of the root handle of
\* the discarded index.
StaleCreateRead ==
    /\ pc = "ev_locked"
    /\ Head(batch).mask = "CREATE"
    /\ Head(batch).wd \notin DOMAIN inner
    /\ inner # EmptyMap
    /\ \A h \in DOMAIN inner : h > Head(batch).wd

\* The parameter eliminates the candidate: a type the candidate is not, a
\* basename keyword the basename does not match, an any-path keyword no
\* component above the basename matches, a direct-parent keyword the parent's
\* name does not match.
Eliminates(param, mode) ==
    IF param.kind = "Type"
    THEN \/ param.file_type = "FilesOnly" /\ cand.directory
         \/ param.file_type = "DirOnly" /\ ~cand.directory
    ELSE IF param.kind = "Keyword" THEN KeywordWorth(param.keyword, mode) = 0
    ELSE IF param.kind = "PathKeyword" THEN MatchingDistances(param.keyword, mode) = {}
    ELSE LET parent_name == Compared(file_name(path_parent(cand.path)),
                                     param.keyword.word, mode)
             word == Compared(param.keyword.word, param.keyword.word, mode)
         IN IF param.keyword.exact_match THEN parent_name # word
            ELSE ~contains(parent_name, word)

\* C32: under a query with at least one keyword parameter a candidate that no
\* parameter eliminates has a strictly positive score, and a score below 0 is
\* the score of a candidate that some parameter eliminates.
MatchingScoresPositive ==
    LET params == opts.query.parameters
        eliminated == \E i \in 1..Len(params) :
                         Eliminates(params[i], opts.query.case_option)
    IN /\ ((\E i \in 1..Len(params) : params[i].kind # "Type") /\ ~eliminated)
             => result > 0
       /\ result < 0 => eliminated

\* C31: however Quit came, by a client's Quit command or by a termination
\* signal, the notification the main task sends to the IPC task after
\* clearing the index is delivered and the main task ends normally.
ShutdownNotificationDelivered ==
    [][(pc = "cleared" /\ pc' # "cleared") => pc' = "done"]_vars

\* C33: the IPC task holds the index lock only inside an arm that posts
\* nothing, the event loop holds it only while it applies a full index or an
\* event, and so the event loop, once it waits for the lock, gets it, and a
\* control message, once posted, is received.
LoopNeverBlocked ==
    /\ [](lock = "ipc" => ipc \in {"reading", "writing"})
    /\ [](lock = "main" => pc \in {"full_locked", "ev_locked"})
    /\ (pc \in {"full_wait", "ev_wait"}) ~> (lock = "main")
    /\ (ctl # <<>>) ~> (ctl = <<>>)
====
